---- MODULE Spec2Model ----
(***************************************************************************)
(* Model of src/app.py: a Streamlit script that extracts a video           *)
(* identifier from a URL, resolves a transcript track through a four-tier  *)
(* fallback, truncates the text, and hands a prompt to a cached agent.     *)
(*                                                                         *)
(* Strings that the code inspects character by character (the URL, the     *)
(* identifier) are sequences of one-character strings.  Transcript text is *)
(* a sequence of runs [ch, n] (n copies of character ch), which keeps the  *)
(* 30,000-character ceiling of the source at its real value.               *)
(***************************************************************************)
EXTENDS Integers, Sequences, FiniteSets, TLC

VARIABLES
    apiKey,          \* GOOGLE_API_KEY present in the environment (line 12)
    cache,           \* st.cache_resource entry of initialize_assistant
    builds,          \* number of times Assistant(...) was constructed
    pc,              \* position of the running script
    assistant,       \* module global assigned at line 35 in this run
    yt_link,         \* text input, line 94
    video_id,        \* line 122
    transcript_list, \* result of api.list, line 54
    idx,             \* position of the for loop of line 74
    fetchLog,        \* fetch attempts of this resolution, <<tier, track>>
    transcript_data, \* line 130
    language,        \* line 130
    joined,          \* the joined text of line 135, before truncation
    text,            \* line 135 / 157
    prompt,          \* line 160
    download,        \* data of the download button, line 183
    msgs,            \* st.error / st.warning / ... elements of this run
    calls,           \* stages invoked in this run, in order
    failure,         \* the failure raised in this run, "none" if none
    outcome          \* how the run ended

vars == <<apiKey, cache, builds, pc, assistant, yt_link, video_id,
          transcript_list, idx, fetchLog, transcript_data, language, joined,
          text, prompt, download, msgs, calls, failure, outcome>>

----------------------------------------------------------------------------
(* Python values *)

\* None where a character sequence is expected (video_id): a one-element
\* sequence that is no identifier.
None == <<"<None>">>

\* None where a label is expected (language).
NoLanguage == "<None>"

\* Optional transcript: the FetchedTranscript of transcript.fetch(), or None.
NoTranscript == [some |-> FALSE]

Fetched(snippets) == [some |-> TRUE, snippets |-> snippets]

----------------------------------------------------------------------------
(* extract_video_id, lines 37-49 *)

\* [0-9A-Za-z_-]
IdChars == {"0", "1", "2", "3", "4", "5", "6", "7", "8", "9", "A", "B", "C", "D", "E", "F", "G", "H", "I", "J", "K", "L", "M", "N", "O", "P", "Q", "R", "S", "T", "U", "V", "W", "X", "Y", "Z", "a", "b", "c", "d", "e", "f", "g", "h", "i", "j", "k", "l", "m", "n", "o", "p", "q", "r", "s", "t", "u", "v", "w", "x", "y", "z", "_", "-"}

\* {11}
IdLen == 11

\* The literal alternatives that precede the capture group of each pattern,
\* in the order the regular expression tries them.
patterns ==
    << << <<"v", "=">>, <<"/">> >>,
       << <<"e", "m", "b", "e", "d", "/">> >>,
       << <<"w", "a", "t", "c", "h", "?", "v", "=">> >>,
       << <<"y", "o", "u", "t", "u", ".", "b", "e", "/">> >> >>

\* The literal lit occurs in s at position i.
LiteralAt(s, i, lit) ==
    /\ i + Len(lit) - 1 <= Len(s)
    /\ \A k \in 1..Len(lit) : s[i + k - 1] = lit[k]

\* ([0-9A-Za-z_-]{11}) matches in s at position i.
GroupAt(s, i) ==
    /\ i + IdLen - 1 <= Len(s)
    /\ \A k \in 0..(IdLen - 1) : s[i + k] \in IdChars

\* Alternative a of pattern p matches with the match starting at i.
AltMatchesAt(p, s, i, a) ==
    LiteralAt(s, i, p[a]) /\ GroupAt(s, i + Len(p[a]))

MatchesAt(p, s, i) == \E a \in 1..Len(p) : AltMatchesAt(p, s, i, a)

\* re.search(pattern, url): the leftmost position with a match, and at that
\* position the first alternative that matches; match.group(1) is the
\* capture.  <<>> stands for "no match".
re_search(p, s) ==
    IF \E i \in 1..Len(s) : MatchesAt(p, s, i)
    THEN LET i == CHOOSE j \in 1..Len(s) :
                      /\ MatchesAt(p, s, j)
                      /\ \A h \in 1..(j - 1) : ~MatchesAt(p, s, h)
             a == CHOOSE b \in 1..Len(p) :
                      /\ AltMatchesAt(p, s, i, b)
                      /\ \A c \in 1..(b - 1) : ~AltMatchesAt(p, s, i, c)
             g == i + Len(p[a])
         IN  << SubSeq(s, g, g + IdLen - 1) >>
    ELSE << >>

\* A search that anchors the match at the start of the string, as re.match
\* does.
re_match(p, s) ==
    IF Len(s) >= 1 /\ MatchesAt(p, s, 1)
    THEN LET a == CHOOSE b \in 1..Len(p) :
                      /\ AltMatchesAt(p, s, 1, b)
                      /\ \A c \in 1..(b - 1) : ~AltMatchesAt(p, s, 1, c)
             g == 1 + Len(p[a])
         IN  << SubSeq(s, g, g + IdLen - 1) >>
    ELSE << >>

\* The loop of lines 45-49 with re.match in place of re.search.
extract_video_id_match(url) ==
    IF \E n \in 1..Len(patterns) : re_match(patterns[n], url) # << >>
    THEN LET n == CHOOSE m \in 1..Len(patterns) :
                      /\ re_match(patterns[m], url) # << >>
                      /\ \A h \in 1..(m - 1) : re_match(patterns[h], url) = << >>
         IN  re_match(patterns[n], url)[1]
    ELSE None

\* The loop of lines 45-49: the capture of the first pattern that matches,
\* None when no pattern matches.
extract_video_id(url) ==
    IF \E n \in 1..Len(patterns) : re_search(patterns[n], url) # << >>
    THEN LET n == CHOOSE m \in 1..Len(patterns) :
                      /\ re_search(patterns[m], url) # << >>
                      /\ \A h \in 1..(m - 1) : re_search(patterns[h], url) = << >>
         IN  re_search(patterns[n], url)[1]
    ELSE None

----------------------------------------------------------------------------
(* The transcript source, as get_transcript uses it (lines 53-78).         *)
(* A track carries its language code, its human-readable label, whether it *)
(* is auto-generated, and how its fetch behaves: "ok" always succeeds,     *)
(* "fail" always raises, "flaky" may do either on each attempt.            *)

Track(code, label, generated, fetch) ==
    [language_code |-> code, language |-> label,
     is_generated |-> generated, fetch |-> fetch]

FetchBehaviours == {"ok", "fail", "flaky"}

\* Largest number of tracks of one listing.
MaxTracks == 3

ManualLabels == [en |-> "English", fr |-> "French", de |-> "German"]

GeneratedLabels == [en |-> "English (auto-generated)",
                    fr |-> "French (auto-generated)"]

ManualTracks ==
    { Track(c, ManualLabels[c], FALSE, f) :
          c \in DOMAIN ManualLabels, f \in FetchBehaviours }

GeneratedTracks ==
    { Track(c, GeneratedLabels[c], TRUE, f) :
          c \in DOMAIN GeneratedLabels, f \in FetchBehaviours }

\* Sequences over S of length at most n.
SeqUpTo(S, n) == UNION { [1..k -> S] : k \in 0..n }

\* The source keeps one manually created and one generated track per
\* language code.
DistinctCodes(tl) ==
    \A i, j \in 1..Len(tl) :
        tl[i].language_code = tl[j].language_code => i = j

\* TranscriptList.__iter__ as line 74 consumes it: the manually created
\* tracks, then the generated ones.
Listings ==
    { m \o g : m \in { x \in SeqUpTo(ManualTracks, MaxTracks) : DistinctCodes(x) },
               g \in { y \in SeqUpTo(GeneratedTracks, MaxTracks) : DistinctCodes(y) } }

\* The track sets api.list(video_id) may return.
api_list == { tl \in Listings : Len(tl) <= MaxTracks }

\* Position in tl of the track with the given code and provenance; 0 when
\* there is none.
Lookup(tl, code, generated) ==
    IF \E i \in 1..Len(tl) :
           tl[i].language_code = code /\ tl[i].is_generated = generated
    THEN CHOOSE i \in 1..Len(tl) :
           tl[i].language_code = code /\ tl[i].is_generated = generated
    ELSE 0

\* First code of language_codes that has a track of the given provenance.
RECURSIVE FindIn(_, _, _)
FindIn(tl, language_codes, generated) ==
    IF language_codes = << >> THEN 0
    ELSE IF Lookup(tl, Head(language_codes), generated) # 0
         THEN Lookup(tl, Head(language_codes), generated)
         ELSE FindIn(tl, Tail(language_codes), generated)

\* A lookup that takes the first generated track whatever its language.
find_generated_transcript_any(tl, language_codes) ==
    IF \E i \in 1..Len(tl) : tl[i].is_generated
    THEN CHOOSE i \in 1..Len(tl) :
             tl[i].is_generated /\ \A h \in 1..(i - 1) : ~tl[h].is_generated
    ELSE 0

\* find_generated_transcript(language_codes): generated tracks only; 0
\* stands for NoTranscriptFound.
find_generated_transcript(tl, language_codes) ==
    FindIn(tl, language_codes, TRUE)

\* A lookup restricted to manually created tracks.
find_transcript_manual_only(tl, language_codes) ==
    FindIn(tl, language_codes, FALSE)

\* find_transcript(language_codes): for each code, the manually created
\* track if there is one, else the generated one; 0 stands for
\* NoTranscriptFound.
RECURSIVE find_transcript(_, _)
find_transcript(tl, language_codes) ==
    IF language_codes = << >> THEN 0
    ELSE LET c == Head(language_codes)
         IN  IF Lookup(tl, c, FALSE) # 0 THEN Lookup(tl, c, FALSE)
             ELSE IF Lookup(tl, c, TRUE) # 0 THEN Lookup(tl, c, TRUE)
             ELSE find_transcript(tl, Tail(language_codes))

\* find_manually_created_transcript takes language_codes as a required
\* parameter.  args is the argument list of the call: with no argument the
\* call raises TypeError before any lookup (0, like a failed lookup: the
\* bare except of line 65 catches both).
find_manually_created_transcript(tl, args) ==
    IF args = << >> THEN 0 ELSE FindIn(tl, args[1], FALSE)

----------------------------------------------------------------------------
(* Transcript text *)

Run(c, k) == [ch |-> c, n |-> k]

\* MAX_CHARS = 30000
MAX_CHARS == 30000

Whitespace == {" "}

\* The transcripts a successful fetch may deliver: sequences of snippets,
\* each snippet's text a run of one character.
FetchResults ==
    { << >>,
      << Run("a", 0) >>,
      << Run(" ", 3) >>,
      << Run("a", 0), Run("a", 0) >>,
      << Run("a", 5), Run("b", 5) >>,
      << Run("a", MAX_CHARS - 1) >>,
      << Run("a", MAX_CHARS) >>,
      << Run("a", MAX_CHARS + 1) >>,
      << Run("a", MAX_CHARS - 2), Run("b", 1) >>,
      << Run("a", MAX_CHARS - 1), Run("b", 3) >>,
      << Run("a", 20000), Run("b", 14999) >> }

\* " ".join([t.text for t in transcript_data]), line 135
RECURSIVE join(_)
join(snippets) ==
    IF snippets = << >> THEN << >>
    ELSE IF Len(snippets) = 1 THEN << Head(snippets) >>
    ELSE << Head(snippets), Run(" ", 1) >> \o join(Tail(snippets))

\* len(text)
RECURSIVE len(_)
len(t) == IF t = << >> THEN 0 ELSE Head(t).n + len(Tail(t))

\* text[i], 1-based; only for 1 <= i <= len(t)
RECURSIVE CharAt(_, _)
CharAt(t, i) ==
    IF i <= Head(t).n THEN Head(t).ch ELSE CharAt(Tail(t), i - Head(t).n)

\* text.strip() is empty
Blank(t) == \A r \in 1..Len(t) : t[r].n = 0 \/ t[r].ch \in Whitespace

\* text[:k]
RECURSIVE slice(_, _)
slice(t, k) ==
    IF t = << >> \/ k <= 0 THEN << >>
    ELSE IF Head(t).n <= k
         THEN << Head(t) >> \o slice(Tail(t), k - Head(t).n)
         ELSE << Run(Head(t).ch, k) >>

\* bool(transcript_data): None and a transcript without snippets are falsy.
Truthy(td) == td.some /\ Len(td.snippets) > 0

----------------------------------------------------------------------------
(* Display elements, exceptions, st.stop *)

Error(what) == [kind |-> "error", what |-> what]

Warning(what) == [kind |-> "warning", what |-> what]

Info(what) == [kind |-> "info", what |-> what]

\* Exception classes the collaborators raise; all derive from Exception.
ListErrors == {"TranscriptsDisabled", "NoTranscriptFound",
               "VideoUnavailable", "ConnectionError"}

ModelErrors == {"RuntimeError"}

\* st.stop() raises StopException, which derives from BaseException and
\* not from Exception.
BaseOnly == {"StopException"}

\* A handler that names only the three transcript errors.
except_transcript_errors(e) ==
    e \in {"TranscriptsDisabled", "NoTranscriptFound", "VideoUnavailable"}

\* "except Exception" (lines 88, 142, 188) catches e.
except_Exception(e) == e \notin BaseOnly

\* The except clauses of lines 82-89: the message of the Exception that
\* get_transcript raises in place of e.
get_transcript_raise(e) ==
    CASE e = "TranscriptsDisabled" -> "Transcripts are disabled for this video"
      [] e = "NoTranscriptFound"   -> "No transcripts found for this video"
      [] e = "VideoUnavailable"    -> "Video is unavailable or private"
      [] OTHER                     -> "Error fetching transcript"

\* A st.stop() that returns without halting the script.
st_stop_returns(continuation) ==
    [pc |-> continuation, outcome |-> "running"]

\* st.stop() inside the try of line 120: StopException passes the except
\* clauses of lines 142 and 188 and ends the run.
st_stop(continuation) ==
    IF except_Exception("StopException")
    THEN [pc |-> "idle", outcome |-> "caught"]
    ELSE [pc |-> "idle", outcome |-> "stopped"]

\* An exception e raised inside the try of line 120 and outside the try of
\* line 129: lines 188-191 report it and the script runs to its end; an
\* exception no clause catches ends the run with a traceback.
Unexpected(e) ==
    IF except_Exception(e)
    THEN /\ msgs' = Append(msgs, Error("An unexpected error occurred"))
         /\ outcome' = "completed"
    ELSE /\ msgs' = msgs
         /\ outcome' = "crashed"

----------------------------------------------------------------------------
(* st.cache_resource, lines 22-35 *)

\* Without the decorator every call misses.
cache_resource_off(entry) == "empty"

\* The cached return value of initialize_assistant, "empty" on a miss.
cache_resource(entry) == entry

\* The elements a run shows for initialize_assistant: st.error of line 32
\* when the construction fails, replayed from the cache on later runs.
InitElements(result) ==
    IF result = "None" THEN << Error("Failed to initialize assistant") >>
    ELSE << >>

----------------------------------------------------------------------------
(* Inputs *)

\* The values of the URL field.
UrlField ==
    { << >>,
      <<"h", "e", "l", "l", "o">>,
      <<"h", "t", "t", "p", "s", ":", "/", "/", "y", "o", "u", "t", "u", ".", "b", "e", "/", "d", "Q", "w", "4", "w", "9", "W", "g", "X", "c", "Q">>,
      <<"h", "t", "t", "p", "s", ":", "/", "/", "w", "w", "w", ".", "y", "o", "u", "t", "u", "b", "e", ".", "c", "o", "m", "/", "w", "a", "t", "c", "h", "?", "v", "=", "v", "v", "v", "v", "v", "v", "v", "v", "v", "v", "v", "&", "t", "=", "4", "2", "s">> }

\* Keys of summary_instructions, lines 103-106 and 148-153.
SummaryTypes == {"Comprehensive", "Key Points", "Quick Overview",
                 "Detailed Analysis"}

UserQueries == {"", "Focus on technical details"}

NoPrompt == [some |-> FALSE]

NoDownload == [some |-> FALSE]

----------------------------------------------------------------------------
(* The script *)

Init ==
    /\ apiKey \in BOOLEAN
    /\ cache = "empty"
    /\ builds = 0
    /\ pc = "idle"
    /\ assistant = "unset"
    /\ yt_link = << >>
    /\ video_id = None
    /\ transcript_list = << >>
    /\ idx = 0
    /\ fetchLog = << >>
    /\ transcript_data = NoTranscript
    /\ language = NoLanguage
    /\ joined = << >>
    /\ text = << >>
    /\ prompt = NoPrompt
    /\ download = NoDownload
    /\ msgs = << >>
    /\ calls = << >>
    /\ failure = "none"
    /\ outcome = "none"

\* The locals of a run, before the run assigns them.
ResetLocals ==
    /\ video_id' = None
    /\ transcript_list' = << >>
    /\ idx' = 0
    /\ fetchLog' = << >>
    /\ transcript_data' = NoTranscript
    /\ language' = NoLanguage
    /\ joined' = << >>
    /\ text' = << >>
    /\ prompt' = NoPrompt
    /\ download' = NoDownload
    /\ calls' = << >>
    /\ failure' = "none"

\* Lines 11-16: a run of the script without the API key stops at once.
StartupHalt ==
    /\ pc = "idle"
    /\ ~apiKey
    /\ ResetLocals
    /\ msgs' = << Error("GOOGLE_API_KEY not found") >>
    /\ outcome' = "stopped"
    /\ UNCHANGED <<apiKey, cache, builds, pc, assistant, yt_link>>

\* Lines 11-114: a run of the script up to the button.  The assistant is
\* built on a cache miss, taken from the cache otherwise; the widgets
\* deliver the URL and whether the button was pressed.
ScriptRun ==
    /\ pc = "idle"
    /\ apiKey
    /\ ResetLocals
    /\ \E result \in {"Assistant", "None"} :
          /\ IF cache_resource(cache) = "empty"
             THEN /\ builds' = builds + 1
                  /\ cache' = result
                  /\ assistant' = result
             ELSE /\ builds' = builds
                  /\ cache' = cache
                  /\ assistant' = cache_resource(cache)
          /\ msgs' = InitElements(assistant')
    /\ yt_link' \in UrlField
    /\ \E pressed \in BOOLEAN :
          IF pressed
          THEN pc' = "button" /\ outcome' = "running"
          ELSE pc' = "idle" /\ outcome' = "completed"
    /\ UNCHANGED apiKey

\* Lines 114-119.
Analyze ==
    /\ pc = "button"
    /\ IF yt_link = << >>
       THEN /\ msgs' = Append(msgs, Warning("Please enter a YouTube video link"))
            /\ pc' = "idle"
            /\ outcome' = "completed"
       ELSE IF assistant = "None"
       THEN /\ msgs' = Append(msgs, Error("Assistant initialization failed"))
            /\ pc' = "idle"
            /\ outcome' = "completed"
       ELSE /\ msgs' = msgs
            /\ pc' = "extract"
            /\ outcome' = outcome
    /\ UNCHANGED <<apiKey, cache, builds, assistant, yt_link, video_id,
                   transcript_list, idx, fetchLog, transcript_data, language,
                   joined, text, prompt, download, calls, failure>>

\* Lines 121-126.
ExtractId ==
    /\ pc = "extract"
    /\ calls' = Append(calls, "extract_video_id")
    /\ video_id' = extract_video_id(yt_link)
    /\ IF video_id' = None
       THEN /\ msgs' = Append(msgs, Error("Invalid YouTube link"))
            /\ pc' = st_stop("list").pc
            /\ outcome' = st_stop("list").outcome
       ELSE /\ msgs' = Append(msgs, Info("Video ID"))
            /\ pc' = "list"
            /\ outcome' = outcome
    /\ UNCHANGED <<apiKey, cache, builds, assistant, yt_link,
                   transcript_list, idx, fetchLog, transcript_data, language,
                   joined, text, prompt, download, failure>>

\* Lines 130, 53-54, 82-89, 142-144: get_transcript is called and lists the
\* tracks; a listing that raises is re-raised as Exception, reported by the
\* caller, and the run stops.
ListTracks ==
    /\ pc = "list"
    /\ calls' = Append(calls, "get_transcript")
    /\ \/ /\ transcript_list' \in api_list
          /\ pc' = "tier1"
          /\ UNCHANGED <<msgs, failure, outcome>>
       \/ \E e \in ListErrors :
             /\ failure' = e
             /\ transcript_list' = transcript_list
             /\ IF except_Exception("Exception")
                THEN /\ msgs' = Append(msgs,
                          [kind |-> "error",
                           what |-> "Could not fetch transcript",
                           detail |-> get_transcript_raise(e)])
                     /\ pc' = st_stop("compose").pc
                     /\ outcome' = st_stop("compose").outcome
                ELSE /\ msgs' = msgs
                     /\ pc' = "idle"
                     /\ outcome' = "crashed"
    /\ UNCHANGED <<apiKey, cache, builds, assistant, yt_link, video_id, idx,
                   fetchLog, transcript_data, language, joined, text, prompt,
                   download>>

\* A fetch whose failure ends the resolution with (None, None).
TryFetch_return_none(tier, i, label, elsePc, elseIdx) ==
    /\ fetchLog' = Append(fetchLog, <<tier, i>>)
    /\ idx' = idx
    /\ pc' = "returned"
    /\ \/ /\ transcript_list[i].fetch \in {"ok", "flaky"}
          /\ \E snippets \in FetchResults :
                transcript_data' = Fetched(snippets)
          /\ language' = label
       \/ /\ transcript_list[i].fetch \in {"fail", "flaky"}
          /\ transcript_data' = NoTranscript
          /\ language' = NoLanguage

\* transcript.fetch() on track i in the given tier, inside try/except: on
\* success get_transcript returns the transcript with the label; on failure
\* control goes on at position elsePc with loop index elseIdx.
TryFetch(tier, i, label, elsePc, elseIdx) ==
    /\ fetchLog' = Append(fetchLog, <<tier, i>>)
    /\ \/ /\ transcript_list[i].fetch \in {"ok", "flaky"}
          /\ \E snippets \in FetchResults :
                transcript_data' = Fetched(snippets)
          /\ language' = label
          /\ pc' = "returned"
          /\ idx' = idx
       \/ /\ transcript_list[i].fetch \in {"fail", "flaky"}
          /\ UNCHANGED <<transcript_data, language>>
          /\ pc' = elsePc
          /\ idx' = elseIdx

ResolverFrame ==
    UNCHANGED <<apiKey, cache, builds, assistant, yt_link, video_id,
                transcript_list, joined, text, prompt, download, msgs, calls,
                failure, outcome>>

\* Lines 56-60.
Tier1 ==
    /\ pc = "tier1"
    /\ LET i == find_transcript(transcript_list, <<"en">>)
       IN  IF i = 0
           THEN /\ pc' = "tier2"
                /\ UNCHANGED <<idx, fetchLog, transcript_data, language>>
           ELSE TryFetch(1, i, "English", "tier2", idx)
    /\ ResolverFrame

\* Lines 62-66.  The call passes no argument.
Tier2 ==
    /\ pc = "tier2"
    /\ LET i == find_manually_created_transcript(transcript_list, << >>)
       IN  IF i = 0
           THEN /\ pc' = "tier3"
                /\ UNCHANGED <<idx, fetchLog, transcript_data, language>>
           ELSE TryFetch(2, i, transcript_list[i].language, "tier3", idx)
    /\ ResolverFrame

\* Lines 68-72.  On failure the loop of line 74 starts.
Tier3 ==
    /\ pc = "tier3"
    /\ LET i == find_generated_transcript(transcript_list, <<"en">>)
       IN  IF i = 0
           THEN /\ pc' = "tier4"
                /\ idx' = 1
                /\ UNCHANGED <<fetchLog, transcript_data, language>>
           ELSE TryFetch(3, i, "English (auto-generated)", "tier4", 1)
    /\ ResolverFrame

\* "for transcript in transcript_list", line 74: the tracks the loop
\* visits, in order.  The loop takes no account of earlier fetch attempts.
for_transcript_in(tl) == [i \in 1..Len(tl) |-> i]

\* Lines 74-80: one iteration of the loop, or the return after it.
Tier4 ==
    /\ pc = "tier4"
    /\ LET order == for_transcript_in(transcript_list)
       IN  IF idx > Len(order)
           THEN /\ transcript_data' = NoTranscript
                /\ language' = NoLanguage
                /\ pc' = "returned"
                /\ UNCHANGED <<idx, fetchLog>>
           ELSE TryFetch(4, order[idx], transcript_list[order[idx]].language,
                         "tier4", idx + 1)
    /\ ResolverFrame

\* A test that also truncates a text of exactly MAX_CHARS characters.
at_least_MAX_CHARS(t) == len(t) >= MAX_CHARS

\* len(text) > MAX_CHARS, line 156
exceeds_MAX_CHARS(t) == len(t) > MAX_CHARS

\* Lines 131-144, after get_transcript returned.  The locals of
\* get_transcript are gone.
CheckTranscript ==
    /\ pc = "returned"
    /\ IF ~Truthy(transcript_data)
       THEN /\ msgs' = Append(msgs, Error("No transcript available for this video"))
            /\ pc' = st_stop("compose").pc
            /\ outcome' = st_stop("compose").outcome
            /\ UNCHANGED <<joined, text>>
       ELSE /\ joined' = join(transcript_data.snippets)
            /\ text' = joined'
            /\ IF Blank(text')
               THEN /\ msgs' = Append(msgs, Error("Transcript is empty"))
                    /\ pc' = st_stop("compose").pc
                    /\ outcome' = st_stop("compose").outcome
               ELSE /\ msgs' = Append(msgs,
                                 [kind |-> "success",
                                  what |-> "Transcript fetched",
                                  language |-> language])
                    /\ pc' = "compose"
                    /\ outcome' = outcome
    /\ transcript_list' = << >>
    /\ idx' = 0
    /\ fetchLog' = << >>
    /\ UNCHANGED <<apiKey, cache, builds, assistant, yt_link, video_id,
                   transcript_data, language, prompt, download, calls,
                   failure>>

\* Lines 146-165: truncation and the prompt.
Compose ==
    /\ pc = "compose"
    /\ IF exceeds_MAX_CHARS(text)
       THEN /\ text' = slice(text, MAX_CHARS)
            /\ msgs' = Append(msgs, Warning("Transcript truncated"))
       ELSE /\ text' = text
            /\ msgs' = msgs
    /\ \E summary_type \in SummaryTypes, user_query \in UserQueries :
          prompt' = [some |-> TRUE,
                     task |-> summary_type,
                     instructions |-> IF user_query # "" THEN user_query
                                      ELSE "None",
                     language |-> language,
                     text |-> text']
    /\ pc' = "run"
    /\ UNCHANGED <<apiKey, cache, builds, assistant, yt_link, video_id,
                   transcript_list, idx, fetchLog, transcript_data, language,
                   joined, download, calls, failure, outcome>>

\* Lines 167-168 and 188-191.
RunModel ==
    /\ pc = "run"
    /\ calls' = Append(calls, "assistant.run")
    /\ \/ /\ pc' = "stream"
          /\ UNCHANGED <<msgs, failure, outcome>>
       \/ \E e \in ModelErrors :
             /\ failure' = e
             /\ pc' = "idle"
             /\ Unexpected(e)
    /\ UNCHANGED <<apiKey, cache, builds, assistant, yt_link, video_id,
                   transcript_list, idx, fetchLog, transcript_data, language,
                   joined, text, prompt, download>>

\* Lines 170-172 and 188-191: the stream is consumed.
WriteStream ==
    /\ pc = "stream"
    /\ calls' = Append(calls, "write_stream")
    /\ \/ /\ pc' = "stats"
          /\ UNCHANGED <<msgs, failure, outcome>>
       \/ \E e \in ModelErrors :
             /\ failure' = e
             /\ pc' = "idle"
             /\ Unexpected(e)
    /\ UNCHANGED <<apiKey, cache, builds, assistant, yt_link, video_id,
                   transcript_list, idx, fetchLog, transcript_data, language,
                   joined, text, prompt, download>>

\* Lines 174-186: statistics and the download button; the script runs to
\* its end.
Finish ==
    /\ pc = "stats"
    /\ download' = [some |-> TRUE, data |-> text, video_id |-> video_id]
    /\ pc' = "idle"
    /\ outcome' = "completed"
    /\ UNCHANGED <<apiKey, cache, builds, assistant, yt_link, video_id,
                   transcript_list, idx, fetchLog, transcript_data, language,
                   joined, text, prompt, msgs, calls, failure>>

Next ==
    \/ StartupHalt
    \/ ScriptRun
    \/ Analyze
    \/ ExtractId
    \/ ListTracks
    \/ Tier1
    \/ Tier2
    \/ Tier3
    \/ Tier4
    \/ CheckTranscript
    \/ Compose
    \/ RunModel
    \/ WriteStream
    \/ Finish

Spec == Init /\ [][Next]_vars

----------------------------------------------------------------------------
(* extract_video_id on its own, over a larger set of strings *)

VideoIds ==
    { <<"d", "Q", "w", "4", "w", "9", "W", "g", "X", "c", "Q">>,
      <<"v", "v", "v", "v", "v", "v", "v", "v", "v", "v", "v">>,
      <<"-", "_", "-", "_", "-", "_", "-", "_", "-", "_", "-">>,
      <<"0", "1", "2", "3", "4", "5", "6", "7", "8", "9", "A">>,
      <<"v", "_", "e", "-", "m", "b", "e", "d", "0", "Z", "z">> }

\* What precedes the identifier in each accepted URL shape.
UrlShapes ==
    [long  |-> <<"h", "t", "t", "p", "s", ":", "/", "/", "w", "w", "w", ".", "y", "o", "u", "t", "u", "b", "e", ".", "c", "o", "m", "/", "w", "a", "t", "c", "h", "?", "v", "=">>,
     short |-> <<"h", "t", "t", "p", "s", ":", "/", "/", "y", "o", "u", "t", "u", ".", "b", "e", "/">>,
     embed |-> <<"h", "t", "t", "p", "s", ":", "/", "/", "w", "w", "w", ".", "y", "o", "u", "t", "u", "b", "e", ".", "c", "o", "m", "/", "e", "m", "b", "e", "d", "/">>,
     param |-> <<"y", "o", "u", "t", "u", "b", "e", ".", "c", "o", "m", "/", "w", "a", "t", "c", "h", "?", "f", "e", "a", "t", "u", "r", "e", "=", "s", "h", "a", "r", "e", "d", "&", "v", "=">>]

\* What may follow the identifier.
UrlSuffixes ==
    { << >>,
      <<"&", "t", "=", "4", "2", "s">>,
      <<"?", "s", "i", "=", "A", "b", "C">> }

AcceptedUrls ==
    { UrlShapes[sh] \o id \o suffix :
          sh \in DOMAIN UrlShapes, id \in VideoIds, suffix \in UrlSuffixes }

\* Strings that are not of an accepted shape.
OtherStrings ==
    { << >>,
      <<"h", "e", "l", "l", "o", " ", "w", "o", "r", "l", "d">>,
      <<"h", "t", "t", "p", "s", ":", "/", "/", "e", "x", "a", "m", "p", "l", "e", ".", "c", "o", "m", "/">>,
      <<"h", "t", "t", "p", "s", ":", "/", "/", "y", "o", "u", "t", "u", ".", "b", "e", "/", "d", "Q", "w", "4", "w", "9", "W", "g", "X", "c">>,
      <<"h", "t", "t", "p", "s", ":", "/", "/", "w", "w", "w", ".", "y", "o", "u", "t", "u", "b", "e", ".", "c", "o", "m", "/", "w", "a", "t", "c", "h", "?", "v", "=", "d", "Q", "w", "4", "w", "!", "W", "g", "X", "c", "Q">>,
      <<"w", "a", "t", "c", "h", "d", "Q", "w", "4", "w", "9", "W", "g", "X", "c", "Q">>,
      <<"v", "=", "a", "b", "c">>,
      <<"h", "t", "t", "p", "s", ":", "/", "/", "w", "w", "w", ".", "y", "o", "u", "t", "u", "b", "e", ".", "c", "o", "m", "/", "p", "l", "a", "y", "l", "i", "s", "t", "?", "l", "i", "s", "t", "=", "P", "L", "1">>,
      <<"h", "t", "t", "p", "s", ":", "/", "/", "w", "w", "w", ".", "y", "o", "u", "t", "u", "b", "e", ".", "c", "o", "m", "/", "c", "h", "a", "n", "n", "e", "l", "n", "a", "m", "e", "1", "/", "v", "i", "d", "e", "o", "s">> }

\* The state in which line 122 is reached, for each string.
InitUrl ==
    /\ apiKey = TRUE
    /\ cache = "Assistant"
    /\ builds = 1
    /\ pc = "extract"
    /\ assistant = "Assistant"
    /\ yt_link \in (AcceptedUrls \cup OtherStrings) \ { << >> }
    /\ video_id = None
    /\ transcript_list = << >>
    /\ idx = 0
    /\ fetchLog = << >>
    /\ transcript_data = NoTranscript
    /\ language = NoLanguage
    /\ joined = << >>
    /\ text = << >>
    /\ prompt = NoPrompt
    /\ download = NoDownload
    /\ msgs = << >>
    /\ calls = << >>
    /\ failure = "none"
    /\ outcome = "running"

NextUrl == ExtractId

SpecUrl == InitUrl /\ [][NextUrl]_vars

----------------------------------------------------------------------------
(* Properties *)

\* C1 as stated: whenever get_transcript has returned for a track set that
\* contains a fetchable English track and a fetchable manually authored
\* non-English track, the returned track is English and the label is
\* "English".
C1_AsClaimed ==
    ( /\ pc = "returned"
      /\ \E i \in 1..Len(transcript_list) :
            /\ transcript_list[i].language_code = "en"
            /\ transcript_list[i].fetch = "ok"
      /\ \E j \in 1..Len(transcript_list) :
            /\ transcript_list[j].language_code # "en"
            /\ ~transcript_list[j].is_generated
            /\ transcript_list[j].fetch = "ok" )
    => /\ transcript_data.some
       /\ transcript_list[fetchLog[Len(fetchLog)][2]].language_code = "en"
       /\ language = "English"

\* C1: whenever get_transcript has returned for a track set in which the
\* English track of the English lookup (the manually authored English track
\* if one is listed, else the auto-generated English one) is fetchable, and
\* which contains a fetchable manually authored non-English track, that
\* English track was the only one fetched, it is the one returned, and the
\* label is "English".
C1_EnglishFirst ==
    \A i \in 1..Len(transcript_list) :
        ( /\ pc = "returned"
          /\ transcript_list[i].language_code = "en"
          /\ transcript_list[i].fetch = "ok"
          /\ transcript_list[i].is_generated =>
                \A h \in 1..Len(transcript_list) :
                    transcript_list[h].language_code = "en" => h = i
          /\ \E j \in 1..Len(transcript_list) :
                /\ transcript_list[j].language_code # "en"
                /\ ~transcript_list[j].is_generated
                /\ transcript_list[j].fetch = "ok" )
        => /\ transcript_data.some
           /\ fetchLog = << <<1, i>> >>
           /\ language = "English"

C1_Witness ==
    /\ pc = "returned"
    /\ Len(transcript_list) = 3
    /\ transcript_list[1].language_code = "fr"
    /\ transcript_list[1].fetch = "ok"
    /\ transcript_list[2].language_code = "en"
    /\ ~transcript_list[2].is_generated
    /\ transcript_list[2].fetch = "ok"
    /\ transcript_list[3].language_code = "en"
    /\ transcript_list[3].fetch = "fail"
    /\ fetchLog = << <<1, 2>> >>
    /\ language = "English"

\* C2 as stated: whenever get_transcript has returned for a track set whose
\* only entry is a fetchable auto-generated English track, the label is
\* "English (auto-generated)".
C2_AutoGeneratedLabel ==
    ( /\ pc = "returned"
      /\ Len(transcript_list) = 1
      /\ transcript_list[1].language_code = "en"
      /\ transcript_list[1].is_generated
      /\ transcript_list[1].fetch = "ok" )
    => language = "English (auto-generated)"

\* C3: whenever get_transcript has returned for a track set with no English
\* track and at least one fetchable manually authored track, a transcript was
\* returned, the returned track is manually authored, and the label is that
\* track's own language.
C3_ManualPreferred ==
    ( /\ pc = "returned"
      /\ \A i \in 1..Len(transcript_list) :
            transcript_list[i].language_code # "en"
      /\ \E j \in 1..Len(transcript_list) :
            /\ ~transcript_list[j].is_generated
            /\ transcript_list[j].fetch = "ok" )
    => /\ transcript_data.some
       /\ ~transcript_list[fetchLog[Len(fetchLog)][2]].is_generated
       /\ language = transcript_list[fetchLog[Len(fetchLog)][2]].language

C3_Witness ==
    /\ pc = "returned"
    /\ Len(transcript_list) = 3
    /\ transcript_list[1].language_code = "de"
    /\ transcript_list[1].fetch = "fail"
    /\ transcript_list[2].language_code = "fr"
    /\ ~transcript_list[2].is_generated
    /\ transcript_list[2].fetch = "ok"
    /\ transcript_list[3].language_code = "fr"
    /\ transcript_list[3].is_generated
    /\ transcript_list[3].fetch = "ok"
    /\ transcript_data.some
    /\ language = "French"

\* C4: when get_transcript has returned and some listed track is fetchable,
\* a transcript and a label were returned; (None, None) is returned only
\* after the loop attempted every listed track and none is fetchable; and a
\* run that stopped after get_transcript returned None reported "No
\* transcript available".
C4_FallThrough ==
    /\ pc = "returned" =>
          /\ (\E i \in 1..Len(transcript_list) :
                  transcript_list[i].fetch = "ok")
                 => transcript_data.some /\ language # NoLanguage
          /\ ~transcript_data.some =>
                 /\ language = NoLanguage
                 /\ \A i \in 1..Len(transcript_list) :
                        /\ transcript_list[i].fetch # "ok"
                        /\ \E k \in 1..Len(fetchLog) : fetchLog[k] = <<4, i>>
    /\ ( /\ pc = "idle"
         /\ outcome = "stopped"
         /\ failure = "none"
         /\ Len(calls) = 2
         /\ ~transcript_data.some )
       => msgs[Len(msgs)] = Error("No transcript available for this video")

C4_Witness ==
    /\ pc = "returned"
    /\ Len(fetchLog) = 4
    /\ fetchLog[1][1] = 1
    /\ fetchLog[2][1] = 3
    /\ transcript_data.some
    /\ language = "German"

\* C5: get_transcript is called only after extract_video_id returned an
\* identifier; assistant.run only after get_transcript returned a transcript
\* whose joined text is not blank; and a run whose URL matches no pattern,
\* whose listing raised, or whose transcript is missing or blank has stopped
\* with an error as its last element and without any later stage.
C5_StagesGated ==
    /\ (\E k \in 1..Len(calls) : calls[k] = "get_transcript") =>
          /\ calls[1] = "extract_video_id"
          /\ video_id # None
          /\ Len(video_id) = IdLen
    /\ (\E k \in 1..Len(calls) : calls[k] = "assistant.run") =>
          /\ calls[1] = "extract_video_id"
          /\ calls[2] = "get_transcript"
          /\ calls[3] = "assistant.run"
          /\ Truthy(transcript_data)
          /\ ~Blank(joined)
    /\ ( /\ pc = "idle"
         /\ calls # << >>
         /\ video_id = None )
       => /\ calls = << "extract_video_id" >>
          /\ outcome = "stopped"
          /\ msgs[Len(msgs)].kind = "error"
    /\ ( /\ pc = "idle"
         /\ Len(calls) >= 2
         /\ \/ failure \in ListErrors
            \/ ~Truthy(transcript_data)
            \/ Blank(joined) )
       => /\ calls = << "extract_video_id", "get_transcript" >>
          /\ outcome = "stopped"
          /\ msgs[Len(msgs)].kind = "error"

C5_Witness ==
    /\ pc = "idle"
    /\ outcome = "stopped"
    /\ calls = << "extract_video_id", "get_transcript" >>
    /\ transcript_data.some
    /\ Len(transcript_data.snippets) = 2
    /\ Blank(joined)
    /\ msgs[Len(msgs)] = Error("Transcript is empty")

\* C6: a run in which the listing, the model call or its stream raised has
\* ended with exactly one error element, was not ended by an uncaught
\* exception, and invoked the failed stage once.
C6_OneErrorReport ==
    ( pc = "idle" /\ failure # "none" )
    => /\ Cardinality({ k \in 1..Len(msgs) : msgs[k].kind = "error" }) = 1
       /\ outcome \in {"stopped", "completed"}
       /\ failure \in ListErrors =>
             Cardinality({ k \in 1..Len(calls) :
                               calls[k] = "get_transcript" }) = 1
       /\ failure \in ModelErrors =>
             /\ Cardinality({ k \in 1..Len(calls) :
                                  calls[k] = "assistant.run" }) = 1
             /\ Cardinality({ k \in 1..Len(calls) :
                                  calls[k] = "write_stream" }) <= 1

C6_Witness ==
    /\ pc = "idle"
    /\ failure = "RuntimeError"
    /\ calls[Len(calls)] = "write_stream"
    /\ outcome = "completed"
    /\ msgs[Len(msgs)] = Error("An unexpected error occurred")

\* C7: once the prompt is composed, if the joined text is longer than
\* MAX_CHARS the text of the prompt has exactly MAX_CHARS characters, agrees
\* with the joined text at each of them, and the truncation warning was
\* raised; otherwise the text of the prompt is the joined text and no
\* truncation warning was raised.  The text offered for download is the text
\* of the prompt.
C7_Truncation ==
    prompt.some =>
       /\ IF len(joined) > MAX_CHARS
          THEN /\ len(prompt.text) = MAX_CHARS
               /\ \A i \in 1..MAX_CHARS :
                      CharAt(prompt.text, i) = CharAt(joined, i)
               /\ \E k \in 1..Len(msgs) :
                      msgs[k] = Warning("Transcript truncated")
          ELSE /\ prompt.text = joined
               /\ \A k \in 1..Len(msgs) :
                      msgs[k] # Warning("Transcript truncated")
       /\ download.some => download.data = prompt.text

C7_Witness ==
    /\ download.some
    /\ len(joined) = 35000
    /\ len(download.data) = MAX_CHARS
    /\ len(prompt.text) = MAX_CHARS

\* C8: after extract_video_id ran on a string made of an accepted URL shape,
\* an 11-character identifier and a suffix, video_id is that identifier;
\* after it ran on a string in which no pattern matches at any position,
\* video_id is None.
C8_ExtractsIdentifier ==
    ( calls # << >> /\ calls[1] = "extract_video_id" ) =>
       /\ \A sh \in DOMAIN UrlShapes, id \in VideoIds, suffix \in UrlSuffixes :
              yt_link = UrlShapes[sh] \o id \o suffix => video_id = id
       /\ (\A n \in 1..Len(patterns), i \in 1..Len(yt_link) :
               ~MatchesAt(patterns[n], yt_link, i))
              => video_id = None

C8_Witness ==
    /\ calls = << "extract_video_id" >>
    /\ yt_link = UrlShapes["embed"]
                    \o <<"v", "_", "e", "-", "m", "b", "e", "d", "0", "Z", "z">>
                    \o <<"?", "s", "i", "=", "A", "b", "C">>
    /\ video_id = <<"v", "_", "e", "-", "m", "b", "e", "d", "0", "Z", "z">>

\* C9: in every step, the assistant has been constructed at most once; a
\* filled cache entry is neither rebuilt nor changed; the assistant of a run
\* is the cache entry; and with a cached failed construction the run shows
\* the initialization failure and invokes no stage.
C9_BuiltOnce ==
    [][ /\ builds' <= 1
        /\ cache # "empty" => (cache' = cache /\ builds' = builds)
        /\ assistant' # "unset" => assistant' = cache'
        /\ cache' = "None" =>
              /\ calls' = << >>
              /\ msgs'[1] = Error("Failed to initialize assistant")
              /\ pc' \in {"idle", "button"} ]_vars

C9_Witness ==
    /\ cache = "None"
    /\ builds = 1
    /\ pc = "idle"
    /\ outcome = "completed"
    /\ msgs = << Error("Failed to initialize assistant"),
                 Error("Assistant initialization failed") >>

\* C10 as stated: within one resolution the final tier fetches no track
\* whose fetch an earlier tier already attempted (and with that, no track is
\* fetched twice).
C10_FinalTierOnlyUntried ==
    \A j, k \in 1..Len(fetchLog) :
        (fetchLog[j][1] < 4 /\ fetchLog[k][1] = 4)
            => fetchLog[j][2] # fetchLog[k][2]

====
